---------------------------- MODULE Spec2Model ----------------------------
(***************************************************************************)
(* The availability grid of the booking DatePicker: useCalendarDays builds *)
(* the cells of the browsing month, decides whether the grid continues     *)
(* into the next month, and groups the cells into display weeks.           *)
(*                                                                         *)
(* A Dayjs value is a record [year, month, date] with month in 0..11 as in *)
(* dayjs; a date-string "YYYY-MM-DD" is the integer YYYYMMDD, which orders  *)
(* and compares as the string does.  includedDates and excludedDates are   *)
(* only ever read through .includes, so they are sets of date-strings.     *)
(***************************************************************************)
EXTENDS Integers, Sequences, FiniteSets, TLC

VARIABLES
    browsingDate,   \* prop: the month on display (a Dayjs)
    weekStart,      \* prop: 0..6, the weekday of the grid's first column
    includedDates,  \* prop: bookable date-strings
    excludedDates,  \* prop: date-strings that are not bookable
    showOneMonth,   \* prop: forces a single month
    pc,             \* "props" before the render pass, "rendered" after it
    hook,           \* what useCalendarDays returned in the render pass
    selected,       \* prop: the selected Dayjs, an array of them, or Null
    layout,         \* Booker store: "mobile" or "month_view"
    isPending,      \* prop: the schedule is still loading
    selectedDatesAndTimes, \* Booker store: the keys of the entry of eventSlug, or Null
    autoNavigating, \* DatePicker state (useState(true))
    log,            \* what the callbacks of the last step were called with
    credential,     \* Zoom: the CredentialPayload the adapter was built on
    stored,         \* Zoom: the row of the credential in the database
    calls,          \* Zoom: the invocations of refreshAccessToken, in order of start
    ops,            \* Zoom: the adapter operations started, in order of start
    now             \* Zoom: Date.now(), in milliseconds

vars == <<browsingDate, weekStart, includedDates, excludedDates, showOneMonth, pc, hook,
          selected, layout, isPending, selectedDatesAndTimes, autoNavigating, log,
          credential, stored, calls, ops, now>>

\* The variables of the picker that the render pass of the grid leaves alone.
pickerVars == <<selected, layout, isPending, selectedDatesAndTimes, autoNavigating, log>>

\* The variables of the Zoom adapter, which the date picker never touches.
zoomVars == <<credential, stored, calls, ops, now>>

(***************************************************************************)
(* Bounds of the model.                                                    *)
(***************************************************************************)
\* Browsing months: June 2024 and the NumMonths - 1 months after it.
NumMonths == 8
\* Longest run of consecutive included dates drawn in a month.
MaxRun == 7

FirstBrowsingDate == [year |-> 2024, month |-> 5, date |-> 1]

(***************************************************************************)
(* dayjs and date helpers.                                                 *)
(***************************************************************************)
Null == [null |-> TRUE]

Min(a, b) == IF a < b THEN a ELSE b

IsLeapYear(y) == (y % 4 = 0 /\ y % 100 # 0) \/ y % 400 = 0

\* daysInMonth(date) of @calcom/lib/date-fns: the length of date's month.
daysInMonth(d) ==
    CASE d.month = 1 -> IF IsLeapYear(d.year) THEN 29 ELSE 28
      [] d.month \in {3, 5, 8, 10} -> 30
      [] OTHER -> 31

\* yyyymmdd(date): the "YYYY-MM-DD" string, months counted from 1.
yyyymmdd(d) == d.year * 10000 + (d.month + 1) * 100 + d.date

\* dayjs .set("date", n) / .date(n), for n a day of the month.
SetDate(d, n) == [d EXCEPT !.date = n]

\* dayjs .add(n, "month"): the date is clamped to the new month's length.
AddMonth(d, n) ==
    LET total == d.year * 12 + d.month + n
        first == [year |-> total \div 12, month |-> total % 12, date |-> 1]
    IN  [first EXCEPT !.date = Min(d.date, daysInMonth(first))]

\* dayjs .day(): the weekday, 0 = Sunday .. 6 = Saturday (Gregorian calendar).
MonthShift == <<0, 3, 2, 5, 0, 3, 5, 1, 4, 6, 2, 4>>
WeekDay(d) ==
    LET y == IF d.month < 2 THEN d.year - 1 ELSE d.year
    IN  (y + (y \div 4) - (y \div 100) + (y \div 400) + MonthShift[d.month + 1] + d.date) % 7

\* The date-strings of every calendar date of bd's month.
DatesOfMonth(bd) == { yyyymmdd(SetDate(bd, k)) : k \in 1..daysInMonth(bd) }

\* getAvailableDatesInMonth({browsingDate, includedDates}): the bookable
\* date-strings of the month: the included ones, or every date of the month
\* when no restriction is supplied.
getAvailableDatesInMonth(bd, inc) ==
    IF inc = {} THEN DatesOfMonth(bd) ELSE DatesOfMonth(bd) \cap inc

(***************************************************************************)
(* useCalendarDays.                                                        *)
(***************************************************************************)
\* Mutant: the operands of the subtraction are swapped.
Padding_Swapped(bd, ws) ==
    LET weekdayOfFirst == WeekDay(SetDate(bd, 1))
    IN  [i \in 1..((ws - weekdayOfFirst + 7) % 7) |-> Null]

\* Array((weekdayOfFirst - weekStart + 7) % 7).fill(null)
Padding(bd, ws) ==
    LET weekdayOfFirst == WeekDay(SetDate(bd, 1))
    IN  [i \in 1..((weekdayOfFirst - ws + 7) % 7) |-> Null]

\* Mutant: the loop stops one day early (day < dayCount).
days_StopsEarly(bd, ws) ==
    Padding(bd, ws) \o [day \in 1..(daysInMonth(bd) - 1) |-> SetDate(bd, day)]

\* days: the padding, then one Dayjs per day of the browsing month.
days(bd, ws) ==
    Padding(bd, ws) \o [day \in 1..daysInMonth(bd) |-> SetDate(bd, day)]

\* nextMonthDays: the same padding, then one Dayjs per day of the next month.
nextMonthDays(bd, ws) ==
    Padding(bd, ws)
        \o [day \in 1..daysInMonth(AddMonth(bd, 1)) |-> SetDate(AddMonth(bd, 1), day)]

\* Mutant: the excludedDates test is left out.
daysToRenderForTheMonth_NoExcluded(ds, includedDatesInMonth, exc) ==
    [i \in 1..Len(ds) |->
        IF ds[i] = Null
        THEN [day |-> Null, disabled |-> TRUE]
        ELSE [day |-> ds[i], disabled |-> yyyymmdd(ds[i]) \notin includedDatesInMonth]]

\* Mutant: the negation of includes() is left out.
daysToRenderForTheMonth_Inverted(ds, includedDatesInMonth, exc) ==
    [i \in 1..Len(ds) |->
        IF ds[i] = Null
        THEN [day |-> Null, disabled |-> TRUE]
        ELSE [day |-> ds[i],
              disabled |-> (yyyymmdd(ds[i]) \in includedDatesInMonth)
                             \/ (yyyymmdd(ds[i]) \in exc)]]

daysToRenderForTheMonth(ds, includedDatesInMonth, exc) ==
    [i \in 1..Len(ds) |->
        IF ds[i] = Null
        THEN [day |-> Null, disabled |-> TRUE]
        ELSE [day |-> ds[i],
              disabled |-> (yyyymmdd(ds[i]) \notin includedDatesInMonth)
                             \/ (yyyymmdd(ds[i]) \in exc)]]

daysToRenderForNextMonth(nds, inc) ==
    [i \in 1..Len(nds) |->
        IF nds[i] = Null
        THEN [day |-> Null, disabled |-> TRUE]
        ELSE [day |-> nds[i], disabled |-> yyyymmdd(nds[i]) \notin inc]]

\* daysToRenderForTheMonth.filter((day) => !day.disabled)
availableDaysForTheMonth(monthDays) == SelectSeq(monthDays, LAMBDA d : ~d.disabled)

\* Mutant: showOneMonth is not consulted.
shouldRenderNextMonth_IgnoresShowOneMonth(som, includedDatesInMonth, available, includedDatesNextMonth) ==
    /\ Cardinality(includedDatesInMonth) > 0
    /\ Len(available) < 7
    /\ Cardinality(includedDatesNextMonth) > 0

shouldRenderNextMonth(som, includedDatesInMonth, available, includedDatesNextMonth) ==
    IF som THEN FALSE
    ELSE /\ Cardinality(includedDatesInMonth) > 0
         /\ Len(available) < 7
         /\ Cardinality(includedDatesNextMonth) > 0

allDays(render, monthDays, nextDays) ==
    IF render
    THEN monthDays \o SelectSeq(nextDays, LAMBDA d : d.day # Null)
    ELSE monthDays

\* array.slice(from, to) with 0-based bounds, to exclusive and clipped.
Slice(s, from, to) == SubSeq(s, from + 1, Min(to, Len(s)))

\* array.findIndex(test), given test's verdict on each element in order: the
\* 0-based index of the first match, or -1.
FindIndex(hits) ==
    IF \E i \in 1..Len(hits) : hits[i]
    THEN (CHOOSE i \in 1..Len(hits) : hits[i] /\ \A j \in 1..(i - 1) : ~hits[j]) - 1
    ELSE -1

\* Mutant: transitionIndex looks for a day 1 of any month.
transitionIndex_AnyMonth(week, bd) ==
    FindIndex([i \in 1..Len(week) |-> week[i].day # Null /\ week[i].day.date = 1])

\* Days: week.findIndex(({ day }) => day?.date() === 1 &&
\*                      day?.month() === browsingDate.add(1, "month").month())
transitionIndex(week, bd) ==
    FindIndex([i \in 1..Len(week) |-> /\ week[i].day # Null
                                       /\ week[i].day.date = 1
                                       /\ week[i].day.month = AddMonth(bd, 1).month])

\* Mutant: the groups overlap by one cell (slice(i, i + daysPerWeek + 1)).
groupedWeeks_Overlapping(all) ==
    [w \in 1..((Len(all) + 6) \div 7) |-> Slice(all, 7 * (w - 1), 7 * (w - 1) + 8)]

\* The for loop that chunks allDays into groups of daysPerWeek = 7.
groupedWeeks(all) ==
    [w \in 1..((Len(all) + 6) \div 7) |-> Slice(all, 7 * (w - 1), 7 * (w - 1) + 7)]

\* hasAvailableDays(week): week.some((day) => day && !day.disabled)
hasAvailableDays(week) == \E i \in 1..Len(week) : ~week[i].disabled

firstAvailableIndex(gw) == FindIndex([i \in 1..Len(gw) |-> hasAvailableDays(gw[i])])

\* groupedWeeks.slice().reverse().findIndex(...), counted back from the end.
adjustedLastAvailableIndex(gw) ==
    LET lastAvailableIndex ==
            FindIndex([i \in 1..Len(gw) |-> hasAvailableDays(gw[Len(gw) + 1 - i])])
    IN  IF lastAvailableIndex = -1 THEN -1 ELSE Len(gw) - 1 - lastAvailableIndex

\* The loop over i = firstAvailableIndex .. adjustedLastAvailableIndex that
\* fills boundedWeeks and stops once availableDaysCount >= 7.
RECURSIVE BoundedLoop(_, _, _, _, _)
BoundedLoop(gw, i, last, bounded, count) ==
    IF i > last
    THEN [boundedWeeks |-> bounded, availableDaysCount |-> count]
    ELSE LET week == gw[i + 1]
             availableDaysInWeek == Len(SelectSeq(week, LAMBDA d : ~d.disabled))
             newCount == count + availableDaysInWeek
             newBounded == Append(bounded, week)
         IN  IF newCount >= 7
             THEN [boundedWeeks |-> newBounded, availableDaysCount |-> newCount]
             ELSE BoundedLoop(gw, i + 1, last, newBounded, newCount)

\* boundedWeeks and availableDaysCount as they stand after the loop.
boundedWeeks(gw) ==
    LET first == firstAvailableIndex(gw)
        last == adjustedLastAvailableIndex(gw)
    IN  IF first # -1 /\ last # -1
        THEN BoundedLoop(gw, first, last, <<>>, 0)
        ELSE [boundedWeeks |-> <<>>, availableDaysCount |-> 0]

\* Mutant: the window is not taken once 7 available days were counted.
windowedWeeks_SevenDecides(gw, b) ==
    IF Len(b.boundedWeeks) < 5 /\ b.availableDaysCount < 7
    THEN LET currentWeekIndex ==
                 IF b.boundedWeeks = <<>>
                 THEN -1
                 ELSE FindIndex([i \in 1..Len(gw) |-> gw[i] = b.boundedWeeks[1]])
         IN  IF currentWeekIndex # -1
             THEN Slice(gw, currentWeekIndex, currentWeekIndex + 5)
             ELSE b.boundedWeeks
    ELSE b.boundedWeeks

\* Mutant: the five-week window is taken however many weeks were retained.
windowedWeeks_AlwaysFive(gw, b) ==
    LET currentWeekIndex ==
            IF b.boundedWeeks = <<>>
            THEN -1
            ELSE FindIndex([i \in 1..Len(gw) |-> gw[i] = b.boundedWeeks[1]])
    IN  IF currentWeekIndex # -1
        THEN Slice(gw, currentWeekIndex, currentWeekIndex + 5)
        ELSE b.boundedWeeks

\* The five-week window: taken when fewer than 5 weeks were retained.
windowedWeeks(gw, b) ==
    IF Len(b.boundedWeeks) < 5 /\ b.availableDaysCount < 14
    THEN LET currentWeekIndex ==
                 IF b.boundedWeeks = <<>>
                 THEN -1
                 ELSE FindIndex([i \in 1..Len(gw) |-> gw[i] = b.boundedWeeks[1]])
         IN  IF currentWeekIndex # -1
             THEN Slice(gw, currentWeekIndex, currentWeekIndex + 5)
             ELSE b.boundedWeeks
    ELSE b.boundedWeeks

weeks(all, includedDatesInMonth, render) ==
    IF Cardinality(includedDatesInMonth) = 0 \/ ~render
    THEN groupedWeeks(all)
    ELSE windowedWeeks(groupedWeeks(all), boundedWeeks(groupedWeeks(all)))

useCalendarDays(bd, ws, inc, exc, som) ==
    LET inMonth == getAvailableDatesInMonth(bd, inc)
        inNextMonth == getAvailableDatesInMonth(AddMonth(bd, 1), inc)
        monthDays == daysToRenderForTheMonth(days(bd, ws), inMonth, exc)
        nextDays == daysToRenderForNextMonth(nextMonthDays(bd, ws), inc)
        render == shouldRenderNextMonth(som, inMonth, availableDaysForTheMonth(monthDays), inNextMonth)
        all == allDays(render, monthDays, nextDays)
    IN  [daysToRenderForTheMonth |-> monthDays,
         daysToRenderForNextMonth |-> nextDays,
         shouldRenderNextMonth |-> render,
         includedDatesInMonth |-> inMonth,
         includedDatesNextMonth |-> inNextMonth,
         allDays |-> all,
         weeks |-> weeks(all, inMonth, render)]

(***************************************************************************)
(* The props a render pass is given.                                       *)
(***************************************************************************)
BrowsingDates == { AddMonth(FirstBrowsingDate, k) : k \in 0..(NumMonths - 1) }

\* The date-strings of len consecutive days of m's month from day start on.
Run(m, start, len) ==
    { yyyymmdd(SetDate(m, k)) : k \in start..Min(start + len - 1, daysInMonth(m)) }

\* Availability inside the browsing month: nothing, or a run of up to MaxRun
\* days from the 1st or the 5th on, or at the end of the month.
MonthRuns(bd) ==
    {{}} \cup { Run(bd, st, n) : st \in {1, 5}, n \in 1..MaxRun }
         \cup { Run(bd, daysInMonth(bd) - n + 1, n) : n \in 1..MaxRun }

\* Availability inside the next month: nothing, a run of up to MaxRun days at
\* its start, or its last day alone.
NextMonthRuns(bd) ==
    LET next == AddMonth(bd, 1)
    IN  {{}, Run(next, daysInMonth(next), 1)} \cup { Run(next, 1, n) : n \in 1..MaxRun }

IncludedChoices(bd) ==
    { cur \cup nxt : cur \in MonthRuns(bd), nxt \in NextMonthRuns(bd) }

Lowest(S) == CHOOSE x \in S : \A y \in S : x <= y

\* Exclusions: none; every included date of the browsing month; the first
\* included date of the next month; the first 25 days of the browsing month.
ExcludedChoices(bd, inc) ==
    LET cur == inc \cap DatesOfMonth(bd)
        nxt == inc \cap DatesOfMonth(AddMonth(bd, 1))
    IN  {{}, cur, Run(bd, 1, 25)} \cup (IF nxt = {} THEN {} ELSE {{Lowest(nxt)}})

NoResult == [rendered |-> FALSE]

NoLog == [step |-> "none"]

\* The date picker is checked with no Zoom adapter built.
ZoomAtRest ==
    /\ credential = Null
    /\ stored = Null
    /\ calls = <<>>
    /\ ops = <<>>
    /\ now = 0

\* The grid is checked with nothing selected, data loaded, desktop layout.
PickerAtRest ==
    /\ selected = Null
    /\ layout = "month_view"
    /\ isPending = FALSE
    /\ selectedDatesAndTimes = Null
    /\ autoNavigating = TRUE
    /\ log = NoLog

Init ==
    /\ browsingDate \in BrowsingDates
    /\ weekStart \in 0..6
    /\ showOneMonth \in BOOLEAN
    /\ includedDates \in IncludedChoices(browsingDate)
    /\ excludedDates \in ExcludedChoices(browsingDate, includedDates)
    /\ pc = "props"
    /\ hook = NoResult
    /\ PickerAtRest
    /\ ZoomAtRest

\* One render pass of Days / DatePicker: the hook is evaluated on the props.
Render ==
    /\ pc = "props"
    /\ hook' = useCalendarDays(browsingDate, weekStart, includedDates, excludedDates, showOneMonth)
    /\ pc' = "rendered"
    /\ UNCHANGED <<browsingDate, weekStart, includedDates, excludedDates, showOneMonth>>
    /\ UNCHANGED pickerVars
    /\ UNCHANGED zoomVars

Next == Render

Spec == Init /\ [][Next]_vars

Rendered == pc = "rendered"

(***************************************************************************)
(* Vocabulary of the properties.                                           *)
(***************************************************************************)
NextMonthDate == AddMonth(browsingDate, 1)

InMonth(d, m) == d # Null /\ d.year = m.year /\ d.month = m.month

\* The cells of a sequence of weeks, in order.
RECURSIVE Flatten(_)
Flatten(ws) == IF ws = <<>> THEN <<>> ELSE Head(ws) \o Flatten(Tail(ws))

\* The enabled cells of a sequence of cells.
Enabled(cells) == SelectSeq(cells, LAMBDA c : ~c.disabled)

\* The props under which the hook's three conditions for continuation hold.
NearlyExhausted ==
    /\ hook.includedDatesInMonth # {}
    /\ Len(Enabled(hook.daysToRenderForTheMonth)) < 7
    /\ hook.includedDatesNextMonth # {}

(***************************************************************************)
(* C1: shouldRenderNextMonth is true exactly when showOneMonth is not set, *)
(* the browsing month has at least one and fewer than 7 enabled days, and  *)
(* the next month has at least one enabled day.  Stated for the props that *)
(* supply an includedDates restriction.                                    *)
(***************************************************************************)
C1_ContinuationExactly ==
    (Rendered /\ includedDates # {}) =>
        (hook.shouldRenderNextMonth <=>
            /\ ~showOneMonth
            /\ Len(Enabled(hook.daysToRenderForTheMonth)) >= 1
            /\ Len(Enabled(hook.daysToRenderForTheMonth)) < 7
            /\ Len(Enabled(hook.daysToRenderForNextMonth)) >= 1)

(***************************************************************************)
(* C2: with showOneMonth set, shouldRenderNextMonth is false and neither   *)
(* allDays nor weeks holds a day of the next month.                        *)
(***************************************************************************)
C2_ShowOneMonthNoContinuation ==
    (Rendered /\ showOneMonth) =>
        /\ ~hook.shouldRenderNextMonth
        /\ \A i \in 1..Len(hook.allDays) :
              hook.allDays[i].day # Null => InMonth(hook.allDays[i].day, browsingDate)
        /\ \A w \in 1..Len(hook.weeks) : \A i \in 1..Len(hook.weeks[w]) :
              hook.weeks[w][i].day # Null => InMonth(hook.weeks[w][i].day, browsingDate)

\* showOneMonth is set although the availability calls for continuation.
C2_Witness ==
    /\ Rendered /\ showOneMonth /\ NearlyExhausted
    /\ Len(Enabled(hook.daysToRenderForTheMonth)) >= 1
    /\ Len(Enabled(hook.daysToRenderForNextMonth)) >= 1

(***************************************************************************)
(* C3: with a non-empty includedDates, a date of the browsing month is     *)
(* disabled iff its date-string is absent from includedDates or present in *)
(* excludedDates.                                                          *)
(***************************************************************************)
C3_DisabledIffNotIncludedOrExcluded ==
    (Rendered /\ includedDates # {}) =>
        \A i \in 1..Len(hook.daysToRenderForTheMonth) :
            LET c == hook.daysToRenderForTheMonth[i]
            IN  c.day # Null =>
                   (c.disabled <=> (yyyymmdd(c.day) \notin includedDates
                                      \/ yyyymmdd(c.day) \in excludedDates))

\* June 2024 with the 5th and the 6th included: they are the only enabled days.
C3_Witness ==
    /\ Rendered
    /\ yyyymmdd(browsingDate) = 20240601
    /\ includedDates \cap DatesOfMonth(browsingDate) = {20240605, 20240606}
    /\ excludedDates = {}
    /\ { yyyymmdd(Enabled(hook.daysToRenderForTheMonth)[i].day) :
            i \in 1..Len(Enabled(hook.daysToRenderForTheMonth)) } = {20240605, 20240606}

NonNull(cells) == SelectSeq(cells, LAMBDA c : c.day # Null)

C5_WeeksOfSevenKeepEveryDay ==
    Rendered =>
        /\ \A w \in 1..Len(hook.weeks) : Len(hook.weeks[w]) = 7
        /\ NonNull(Flatten(hook.weeks)) = NonNull(hook.allDays)

(***************************************************************************)
(* C5 as amended: the weeks are consecutive groups of 7 cells of allDays,  *)
(* starting at a multiple of 7; only the group that ends allDays may be    *)
(* shorter (1..7 cells, not padded).  Without continuation the weeks hold  *)
(* all of allDays; with continuation the cells dropped in front of the     *)
(* first week are all disabled (cells behind the last week may be dropped  *)
(* too, enabled or not).                                                   *)
(***************************************************************************)
C5_WeeksAreConsecutiveGroups ==
    Rendered =>
        LET flat == Flatten(hook.weeks)
            all == hook.allDays
        IN  /\ \A w \in 1..Len(hook.weeks) : Len(hook.weeks[w]) \in 1..7
            /\ \E k \in 0..(Len(all) \div 7) :
                  /\ 7 * k + Len(flat) <= Len(all)
                  /\ flat = SubSeq(all, 7 * k + 1, 7 * k + Len(flat))
                  /\ \A i \in 1..(7 * k) : all[i].disabled
                  /\ \A w \in 1..Len(hook.weeks) :
                        Len(hook.weeks[w]) < 7 =>
                            (w = Len(hook.weeks) /\ 7 * k + Len(flat) = Len(all))
                  /\ ~hook.shouldRenderNextMonth => (k = 0 /\ flat = all)

\* Continuation with weeks dropped in front and a short last week.
C5_Witness ==
    /\ Rendered /\ hook.shouldRenderNextMonth
    /\ Len(hook.weeks) >= 2
    /\ hook.weeks[1][1] # hook.allDays[1]
    /\ Len(hook.weeks[Len(hook.weeks)]) < 7

(***************************************************************************)
(* C6: with continuation, the weeks begin at the first week that holds an  *)
(* enabled day, end with a week that holds an enabled day, and the window  *)
(* grows only until it shows 7 enabled days or has 5 weeks.  Stated for the *)
(* props that supply an includedDates restriction.                         *)
(***************************************************************************)
C6_WindowStopsAtSevenDaysOrFiveWeeks ==
    (Rendered /\ hook.shouldRenderNextMonth /\ includedDates # {}) =>
        LET ws == hook.weeks
            n == Len(ws)
            shown(m) == Len(Enabled(Flatten(SubSeq(ws, 1, m))))
        IN  /\ n >= 1
            /\ Enabled(ws[1]) # <<>>
            /\ Enabled(Flatten(ws))[1] = Enabled(hook.allDays)[1]
            /\ Enabled(ws[n]) # <<>>
            /\ n <= 5
            /\ \A m \in 1..(n - 1) : shown(m) < 7

(***************************************************************************)
(* C7: daysToRenderForTheMonth has paddingBeforeFirst + daysInMonth cells: *)
(* the null cells, then the days 1..daysInMonth of the browsing month in   *)
(* ascending order, each once.                                             *)
(***************************************************************************)
C7_PaddingThenEveryDayOnce ==
    Rendered =>
        LET cells == hook.daysToRenderForTheMonth
            pad == Len(cells) - Len(NonNull(cells))
        IN  /\ Len(cells) = pad + daysInMonth(browsingDate)
            /\ \A i \in 1..pad : cells[i].day = Null
            /\ \A k \in 1..daysInMonth(browsingDate) :
                  /\ InMonth(cells[pad + k].day, browsingDate)
                  /\ cells[pad + k].day.date = k

\* A 31-day month behind 6 padding cells: 37 cells.
C7_Witness ==
    /\ Rendered
    /\ Len(hook.daysToRenderForTheMonth) = 37
    /\ hook.daysToRenderForTheMonth[6].day = Null
    /\ hook.daysToRenderForTheMonth[37].day.date = 31

(***************************************************************************)
(* C8: the number of leading null cells is                                 *)
(* (weekdayOfFirst - weekStart + 7) mod 7, always in 0..6, and every       *)
(* padding cell is disabled.                                               *)
(***************************************************************************)
\* The number of null cells in front of the first day of a cell sequence.
RECURSIVE LeadingNulls(_)
LeadingNulls(cells) ==
    IF cells = <<>> \/ Head(cells).day # Null THEN 0 ELSE 1 + LeadingNulls(Tail(cells))

C8_PaddingLength ==
    Rendered =>
        LET cells == hook.daysToRenderForTheMonth
            weekdayOfFirst == WeekDay(SetDate(browsingDate, 1))
        IN  /\ LeadingNulls(cells) = (weekdayOfFirst - weekStart + 7) % 7
            /\ LeadingNulls(cells) \in 0..6
            /\ \A i \in 1..Len(cells) : cells[i].day = Null => cells[i].disabled

\* weekStart = 0 and a month that starts on a Wednesday: 3 leading nulls.
C8_Witness ==
    /\ Rendered
    /\ weekStart = 0
    /\ WeekDay(SetDate(browsingDate, 1)) = 3
    /\ LeadingNulls(hook.daysToRenderForTheMonth) = 3
    /\ hook.daysToRenderForTheMonth[4].day.date = 1

(***************************************************************************)
(* C9: a non-null cell of the grid, of the browsing month or of the next   *)
(* month, is enabled only if its date-string is not in excludedDates and,  *)
(* when a restriction is supplied, is in includedDates.                    *)
(***************************************************************************)
C9_ExcludedNeverEnabled ==
    Rendered =>
        \A w \in 1..Len(hook.weeks) : \A i \in 1..Len(hook.weeks[w]) :
            LET c == hook.weeks[w][i]
            IN  (c.day # Null /\ ~c.disabled) =>
                    /\ yyyymmdd(c.day) \notin excludedDates
                    /\ includedDates # {} => yyyymmdd(c.day) \in includedDates

(***************************************************************************)
(* C10: with continuation, the week in which the month changes holds cells *)
(* of two distinct months, the non-null dates of the grid are strictly     *)
(* ascending, and transitionIndex is the position of the next month's day  *)
(* 1 in that week.  Stated for the props that supply an includedDates      *)
(* restriction.                                                            *)
(***************************************************************************)
\* The non-null dates of the grid ascend strictly.
GridAscending ==
    LET cells == NonNull(Flatten(hook.weeks))
    IN  \A i \in 1..(Len(cells) - 1) : yyyymmdd(cells[i].day) < yyyymmdd(cells[i + 1].day)

\* transitionIndex points at the next month's day 1, and at nothing in a
\* week that does not hold it.
TransitionIndexIsDayOne(week) ==
    LET t == transitionIndex(week, browsingDate)
    IN  IF \E i \in 1..Len(week) : week[i].day = SetDate(NextMonthDate, 1)
        THEN t \in 0..(Len(week) - 1) /\ week[t + 1].day = SetDate(NextMonthDate, 1)
        ELSE t = -1

C10_TransitionWeekHasTwoMonths ==
    (Rendered /\ hook.shouldRenderNextMonth /\ includedDates # {}) =>
        /\ GridAscending
        /\ \A w \in 1..Len(hook.weeks) :
              LET week == hook.weeks[w]
              IN  /\ TransitionIndexIsDayOne(week)
                  /\ transitionIndex(week, browsingDate) # -1 =>
                        /\ \E i \in 1..Len(week) : InMonth(week[i].day, browsingDate)
                        /\ \E i \in 1..Len(week) : InMonth(week[i].day, NextMonthDate)

(***************************************************************************)
(* C10 as amended: with continuation, in the week that holds the next      *)
(* month's day 1 the cells from transitionIndex on are days of the next    *)
(* month and the cells before it are days of the browsing month, so the    *)
(* week holds two distinct months exactly when transitionIndex > 0 (a      *)
(* month that changes on a week boundary gives a row of next-month days    *)
(* only); the non-null dates of the grid are strictly ascending; and       *)
(* transitionIndex is the position of the next month's day 1.              *)
(***************************************************************************)
C10_TransitionWeekSplitsAtIndex ==
    (Rendered /\ hook.shouldRenderNextMonth) =>
        /\ GridAscending
        /\ \A w \in 1..Len(hook.weeks) :
              LET week == hook.weeks[w]
                  t == transitionIndex(week, browsingDate)
              IN  /\ TransitionIndexIsDayOne(week)
                  /\ t # -1 =>
                        /\ \A i \in 1..t : InMonth(week[i].day, browsingDate)
                        /\ \A i \in (t + 1)..Len(week) : InMonth(week[i].day, NextMonthDate)
                        /\ (\E i \in 1..Len(week) : InMonth(week[i].day, browsingDate)) <=> t > 0

\* Continuation with a transition row that holds enabled days of both months.
C10_Witness ==
    /\ Rendered /\ hook.shouldRenderNextMonth
    /\ \E w \in 1..Len(hook.weeks) :
          LET week == hook.weeks[w]
              t == transitionIndex(week, browsingDate)
          IN  /\ t > 0
              /\ ~week[t].disabled
              /\ ~week[t + 1].disabled

(***************************************************************************)
(* Days: the no-availability overlay.                                      *)
(***************************************************************************)
\* Whether Days renders NoAvailabilityOverlay (with its next-month button).
NoAvailabilityOverlay(pending, includedDatesInMonth) ==
    ~pending /\ Cardinality(includedDatesInMonth) = 0

(***************************************************************************)
(* C11: whenever the availability data is not pending and the browsing     *)
(* month has no enabled day, Days renders the no-availability overlay,     *)
(* also when every included date of the month is excluded.                 *)
(***************************************************************************)
C11_OverlayWheneverNoEnabledDay ==
    (Rendered /\ ~isPending /\ Enabled(hook.daysToRenderForTheMonth) = <<>>)
        => NoAvailabilityOverlay(isPending, hook.includedDatesInMonth)

(***************************************************************************)
(* Days and DatePicker: selection, month label, navigation.                *)
(*                                                                         *)
(* The selected prop is Null (nothing selected; an invalid dayjs(null)     *)
(* matches no date-string either), a Dayjs, which may carry a time of day  *)
(* in a field hour, or an array [array |-> <<Dayjs, ...>>].  The entry of  *)
(* eventSlug in selectedDatesAndTimes is Null when eventSlug, the map or   *)
(* the entry is missing, and [keys |-> set of date-strings] otherwise.     *)
(***************************************************************************)
IsArray(sel) == "array" \in DOMAIN sel

\* dayjs("YYYY-MM-DD"): the string parsed into a Dayjs.
dayjs(str) ==
    [year |-> str \div 10000, month |-> ((str \div 100) % 100) - 1, date |-> str % 100]

\* date.format("YYYY-MM") as the integer YYYYMM, and dayjs of such a string,
\* which is the first day of that month.
formatMonth(d) == d.year * 100 + d.month + 1
dayjsMonth(m) == [year |-> m \div 100, month |-> (m % 100) - 1, date |-> 1]

\* Mutant: the selection is compared as an object, not by its date-string.
isActive_ByIdentity(day, sel, entry) ==
    IF IsArray(sel)
    THEN \E i \in 1..Len(sel.array) : sel.array[i] = day
    ELSE IF sel # Null /\ sel = day
    THEN TRUE
    ELSE IF entry # Null /\ Cardinality(entry.keys) > 0
    THEN \E k \in entry.keys : dayjs(k) = day
    ELSE FALSE

\* Days.isActive(day) under the selected prop and the map entry of eventSlug.
isActive(day, sel, entry) ==
    IF IsArray(sel)
    THEN \E i \in 1..Len(sel.array) : yyyymmdd(sel.array[i]) = yyyymmdd(day)
    ELSE IF sel # Null /\ yyyymmdd(sel) = yyyymmdd(day)
    THEN TRUE
    ELSE IF entry # Null /\ Cardinality(entry.keys) > 0
    THEN \E k \in entry.keys : yyyymmdd(dayjs(k)) = yyyymmdd(day)
    ELSE FALSE

NoCall == [called |-> FALSE]

\* Mutant: the first enabled day is selected even when the selected date is
\* an enabled day of the month.
handleInitialDateSelection_Always(sel, monthCells) ==
    IF IsArray(sel) THEN NoCall
    ELSE LET first == FindIndex([i \in 1..Len(monthCells) |-> ~monthCells[i].disabled])
         IN  IF first # -1
             THEN [called |-> TRUE, date |-> monthCells[first + 1].day]
             ELSE NoCall

\* Days.handleInitialDateSelection: the argument it calls props.onChange
\* with, or NoCall.
handleInitialDateSelection(sel, monthCells) ==
    IF IsArray(sel) THEN NoCall
    ELSE LET first == FindIndex([i \in 1..Len(monthCells) |-> ~monthCells[i].disabled])
             isSelectedDateAvailable ==
                 IF sel # Null
                 THEN \E i \in 1..Len(monthCells) :
                         /\ monthCells[i].day # Null
                         /\ yyyymmdd(monthCells[i].day) = yyyymmdd(sel)
                         /\ ~monthCells[i].disabled
                 ELSE FALSE
         IN  IF ~isSelectedDateAvailable /\ first # -1
             THEN [called |-> TRUE, date |-> monthCells[first + 1].day]
             ELSE NoCall

\* The effect of Days that runs handleInitialDateSelection off mobile.
initialDateSelectionEffect(lay, sel, monthCells) ==
    IF lay # "mobile" THEN handleInitialDateSelection(sel, monthCells) ELSE NoCall

\* The label of the picker's header, as its sequence of month names, years
\* and separators.
MonthName(d) == [month |-> d.month]
Year(d) == [year |-> d.year]
Separator == [separator |-> "/"]

\* Mutant: the year of the browsing month is left out of a single month.
monthText_YearAtBoundaryOnly(bd, render) ==
    LET next == AddMonth(bd, 1)
        hasSameYear == bd.year = next.year
    IN  IF render
        THEN IF hasSameYear
             THEN <<MonthName(bd), Separator, MonthName(next)>>
             ELSE <<MonthName(bd), Year(bd), Separator, MonthName(next), Year(next)>>
        ELSE <<MonthName(bd)>>

\* DatePicker.monthText for the browsing date and shouldRenderNextMonth.
monthText(bd, render) ==
    LET next == AddMonth(bd, 1)
        hasSameYear == bd.year = next.year
    IN  IF render
        THEN IF hasSameYear
             THEN <<MonthName(bd), Separator, MonthName(next), Year(bd)>>
             ELSE <<MonthName(bd), Year(bd), Separator, MonthName(next), Year(next)>>
        ELSE <<MonthName(bd), Year(bd)>>

(***************************************************************************)
(* The Booker's DatePicker wrapper and the DatePicker's navigation.        *)
(*                                                                         *)
(* A picker state is the record of what the handlers write: the store's    *)
(* month (as the browsingDate prop it becomes) and selectedDate (as the    *)
(* selected prop), the wrapper's showOneMonth, the DatePicker's            *)
(* autoNavigating, and whether onMonthChange was called by the handler.    *)
(***************************************************************************)
\* Store setters: each writes its own field only.
setSelectedDate(st, str) == [st EXCEPT !.selected = dayjs(str)]
setMonth(st, m) == [st EXCEPT !.browsingDate = dayjsMonth(m)]

\* The wrapper's onChange(date, showOneMonth).
onChange(st, date, som) ==
    setSelectedDate(IF som THEN [st EXCEPT !.showOneMonth = TRUE] ELSE st, yyyymmdd(date))

\* The wrapper's onMonthChange(date).
onMonthChange(st, date, lay) ==
    LET moved == setMonth([st EXCEPT !.showOneMonth = FALSE, !.monthChanged = TRUE],
                          formatMonth(date))
    IN  IF lay # "mobile" THEN setSelectedDate(moved, yyyymmdd(date)) ELSE moved

\* Mutant: changeMonth leaves autoNavigating as it is.
changeMonth_KeepsAutoNavigating(st, newMonth, lay) ==
    onMonthChange(st, AddMonth(st.browsingDate, newMonth), lay)

\* DatePicker.changeMonth(newMonth).
changeMonth(st, newMonth, lay) ==
    onMonthChange([st EXCEPT !.autoNavigating = FALSE],
                  AddMonth(st.browsingDate, newMonth), lay)

\* Mutant: the effect advances whatever autoNavigating is.
autoNavigationEffect_IgnoresFlag(st, includedDatesInMonth, includedDatesNextMonth, lay) ==
    IF /\ Cardinality(includedDatesInMonth) = 0
       /\ Cardinality(includedDatesNextMonth) > 0
    THEN changeMonth(st, 1, lay)
    ELSE [st EXCEPT !.autoNavigating = FALSE]

\* Mutant: the effect advances whatever the next month holds.
autoNavigationEffect_IgnoresNextMonth(st, includedDatesInMonth, includedDatesNextMonth, lay) ==
    IF /\ st.autoNavigating
       /\ Cardinality(includedDatesInMonth) = 0
    THEN changeMonth(st, 1, lay)
    ELSE [st EXCEPT !.autoNavigating = FALSE]

\* Mutant: the else branch leaves autoNavigating as it is.
autoNavigationEffect_NoReset(st, includedDatesInMonth, includedDatesNextMonth, lay) ==
    IF /\ st.autoNavigating
       /\ Cardinality(includedDatesInMonth) = 0
       /\ Cardinality(includedDatesNextMonth) > 0
    THEN changeMonth(st, 1, lay)
    ELSE st

\* The DatePicker's auto-navigation effect.
autoNavigationEffect(st, includedDatesInMonth, includedDatesNextMonth, lay) ==
    IF /\ st.autoNavigating
       /\ Cardinality(includedDatesInMonth) = 0
       /\ Cardinality(includedDatesNextMonth) > 0
    THEN changeMonth(st, 1, lay)
    ELSE [st EXCEPT !.autoNavigating = FALSE]

(***************************************************************************)
(* The mounted picker: a commit (render), then its effects, then the user. *)
(***************************************************************************)
\* Months with availability data: June 2024 and the PickerMonths - 1 after.
PickerMonths == 3

MonthIndex(bd) ==
    (bd.year * 12 + bd.month) - (FirstBrowsingDate.year * 12 + FirstBrowsingDate.month)

\* The months the picker can browse: those with data and the one after.
PickerDates == { AddMonth(FirstBrowsingDate, k) : k \in 0..PickerMonths }

\* A month offers nothing, its 3rd and 4th, or its first 8 days.
MonthPattern(m, kind) ==
    IF kind = "none" THEN {}
    ELSE IF kind = "few" THEN Run(m, 3, 2)
    ELSE Run(m, 1, 8)

PickerIncluded ==
    { UNION { MonthPattern(AddMonth(FirstBrowsingDate, k), f[k]) : k \in 0..(PickerMonths - 1) } :
        f \in [0..(PickerMonths - 1) -> {"none", "few", "many"}] }

\* The store's selectedDate at mount: none, or the 4th of the second month.
InitialSelections == {Null, SetDate(AddMonth(FirstBrowsingDate, 1), 4)}

PickerState ==
    [browsingDate |-> browsingDate, selected |-> selected, showOneMonth |-> showOneMonth,
     autoNavigating |-> autoNavigating, monthChanged |-> FALSE]

\* The log of a step: its name, the day last clicked (kept while the effects
\* run, Null after any other act of the user), whether the effects issued
\* an onMonthChange, what handleInitialDateSelection did, the number of
\* automatic onMonthChange calls so far, the number of onChange calls of
\* handleInitialDateSelection since the user last acted, and whether
\* changeMonth has been called by the user.
Logged(step, clicked, automatic, selection, autoCalls, selectionCalls, manual) ==
    [step |-> step, clicked |-> clicked, automatic |-> automatic, selection |-> selection,
     autoCalls |-> autoCalls, selectionCalls |-> selectionCalls, manual |-> manual]

\* The state a handler left is committed: the components render again, and
\* their effects are due, when includedDates or a state value changed.
Commit(st, inc) ==
    LET changed == \/ inc # includedDates
                   \/ st.browsingDate # browsingDate
                   \/ st.selected # selected
                   \/ st.showOneMonth # showOneMonth
                   \/ st.autoNavigating # autoNavigating
    IN  /\ browsingDate' = st.browsingDate
        /\ selected' = st.selected
        /\ showOneMonth' = st.showOneMonth
        /\ autoNavigating' = st.autoNavigating
        /\ hook' = useCalendarDays(st.browsingDate, weekStart, inc, excludedDates,
                                   st.showOneMonth)
        /\ pc' = IF changed THEN "effects" ELSE "idle"

\* The mount: the schedule is loaded, or pending with no date listed yet.
PickerInit ==
    /\ browsingDate \in PickerDates
    /\ weekStart = 0
    /\ isPending \in BOOLEAN
    /\ includedDates \in (IF isPending THEN {{}} ELSE PickerIncluded)
    /\ excludedDates = {}
    /\ showOneMonth = FALSE
    /\ selected \in InitialSelections
    /\ layout \in {"mobile", "month_view"}
    /\ selectedDatesAndTimes = Null
    /\ autoNavigating = TRUE
    /\ hook = useCalendarDays(browsingDate, weekStart, includedDates, excludedDates, showOneMonth)
    /\ pc = "effects"
    /\ log = Logged("mount", Null, FALSE, NoCall, 0, 0, FALSE)
    /\ ZoomAtRest

\* The effects of one commit: Days' initial date selection, then the
\* DatePicker's auto-navigation, then the render their updates cause.
RunEffects ==
    /\ pc = "effects"
    /\ LET selection == initialDateSelectionEffect(layout, selected, hook.daysToRenderForTheMonth)
           afterDays == IF selection.called
                        THEN onChange(PickerState, selection.date, FALSE)
                        ELSE PickerState
           st == autoNavigationEffect(afterDays, hook.includedDatesInMonth,
                                      hook.includedDatesNextMonth, layout)
       IN  /\ Commit(st, includedDates)
           /\ log' = Logged("effects", log.clicked, st.monthChanged, selection,
                            log.autoCalls + (IF st.monthChanged THEN 1 ELSE 0),
                            log.selectionCalls + (IF selection.called THEN 1 ELSE 0),
                            log.manual)
    /\ UNCHANGED <<weekStart, includedDates, excludedDates, layout, isPending, selectedDatesAndTimes>>
    /\ UNCHANGED zoomVars

\* The days rendered as enabled buttons.
ClickableDays ==
    LET cells == Flatten(hook.weeks)
    IN  IF isPending THEN {}
        ELSE { cells[i].day : i \in { j \in 1..Len(cells) : ~cells[j].disabled } }

\* A day button is clicked: onChange(day, dayIsInNextMonth).
ClickDay ==
    /\ pc = "idle"
    /\ \E day \in ClickableDays :
        LET dayIsInNextMonth == day.month = AddMonth(browsingDate, 1).month
        IN  /\ Commit(onChange(PickerState, day, dayIsInNextMonth), includedDates)
            /\ log' = Logged("day", day, FALSE, NoCall, log.autoCalls, 0, log.manual)
    /\ UNCHANGED <<weekStart, includedDates, excludedDates, layout, isPending, selectedDatesAndTimes>>
    /\ UNCHANGED zoomVars

\* The previous-month button, disabled unless browsingDate is after today
\* (a day of the first month).
ClickPreviousMonth ==
    /\ pc = "idle"
    /\ MonthIndex(browsingDate) > 0
    /\ Commit(changeMonth(PickerState, -1, layout), includedDates)
    /\ log' = Logged("previous", Null, FALSE, NoCall, log.autoCalls, 0, TRUE)
    /\ UNCHANGED <<weekStart, includedDates, excludedDates, layout, isPending, selectedDatesAndTimes>>
    /\ UNCHANGED zoomVars

\* The next-month button.
ClickNextMonth ==
    /\ pc = "idle"
    /\ MonthIndex(browsingDate) < PickerMonths
    /\ Commit(changeMonth(PickerState, 1, layout), includedDates)
    /\ log' = Logged("next", Null, FALSE, NoCall, log.autoCalls, 0, TRUE)
    /\ UNCHANGED <<weekStart, includedDates, excludedDates, layout, isPending, selectedDatesAndTimes>>
    /\ UNCHANGED zoomVars

\* The button of the no-availability overlay.
ClickViewNextMonth ==
    /\ pc = "idle"
    /\ NoAvailabilityOverlay(isPending, hook.includedDatesInMonth)
    /\ MonthIndex(browsingDate) < PickerMonths
    /\ Commit(changeMonth(PickerState, 1, layout), includedDates)
    /\ log' = Logged("overlay", Null, FALSE, NoCall, log.autoCalls, 0, TRUE)
    /\ UNCHANGED <<weekStart, includedDates, excludedDates, layout, isPending, selectedDatesAndTimes>>
    /\ UNCHANGED zoomVars

\* The schedule arrives: isPending falls and includedDates is what it holds.
ScheduleLoaded ==
    /\ pc = "idle"
    /\ isPending
    /\ isPending' = FALSE
    /\ \E inc \in PickerIncluded :
        /\ includedDates' = inc
        /\ Commit(PickerState, inc)
    /\ log' = Logged("loaded", Null, FALSE, NoCall, log.autoCalls, 0, log.manual)
    /\ UNCHANGED <<weekStart, excludedDates, layout, selectedDatesAndTimes>>
    /\ UNCHANGED zoomVars

PickerNext ==
    \/ RunEffects
    \/ ClickDay
    \/ ClickPreviousMonth
    \/ ClickNextMonth
    \/ ClickViewNextMonth
    \/ ScheduleLoaded

SpecPicker == PickerInit /\ [][PickerNext]_vars

Idle == pc = "idle"

(***************************************************************************)
(* C12: manual month navigation (changeMonth from the previous, next or    *)
(* no-availability button) interrupts auto-advance: once changeMonth has   *)
(* been called by the user, autoNavigating is false and no step issues an  *)
(* automatic onMonthChange, whatever the months reached hold.              *)
(***************************************************************************)
C12_ManualNavigationStopsAutoAdvance ==
    log.manual => (~autoNavigating /\ ~log.automatic)

\* After a manual navigation the effects ran on a month without included
\* dates whose next month has some, and the picker stayed there.
C12_Witness ==
    /\ log.manual
    /\ log.step = "effects"
    /\ Idle
    /\ hook.includedDatesInMonth = {}
    /\ hook.includedDatesNextMonth # {}

\* The days of the next month as the hook renders them have no enabled one.
NoEnabledDay(cells) == Enabled(cells) = <<>>

C14_AutoAdvanceWhenBothMonthsEmpty ==
    [][(/\ autoNavigating
        /\ ~log.manual
        /\ NoEnabledDay(hook.daysToRenderForTheMonth)
        /\ NoEnabledDay(hook.daysToRenderForNextMonth))
          => (log'.automatic /\ browsingDate' = AddMonth(browsingDate, 1))]_vars

(***************************************************************************)
(* C14, as the code has it: with autoNavigating still true, the effect     *)
(* issues an automatic onMonthChange, to the next month, exactly when the  *)
(* browsing month has no included date and the next month has at least     *)
(* one; when both months have none it issues no onMonthChange.             *)
(***************************************************************************)
C14_AutoAdvanceWhenOnlyNextMonthHasDates ==
    [][autoNavigating =>
        /\ log'.automatic <=> (/\ hook.includedDatesInMonth = {}
                               /\ hook.includedDatesNextMonth # {})
        /\ log'.automatic => browsingDate' = AddMonth(browsingDate, 1)
        /\ (hook.includedDatesInMonth = {} /\ hook.includedDatesNextMonth = {})
              => (log'.autoCalls = 0 /\ browsingDate' = browsingDate)
      ]_vars

\* The effects have just issued the automatic onMonthChange.
C14_Witness ==
    /\ log.step = "effects"
    /\ log.automatic
    /\ log.autoCalls = 1
    /\ hook.includedDatesInMonth # {}

(***************************************************************************)
(* C20: autoNavigating starts true, is false after the first run of the    *)
(* auto-navigation effect whichever branch it takes, and is never true     *)
(* again; over the life of the mounted DatePicker at most one automatic    *)
(* onMonthChange(+1 month) is issued, and only from a month with no        *)
(* included date to a month with at least one.                             *)
(***************************************************************************)
C20_AutoNavigatingFallsOnce ==
    /\ log.step = "mount" => autoNavigating
    /\ log.step # "mount" => ~autoNavigating
    /\ log.autoCalls <= 1
    /\ log.automatic =>
        /\ log.autoCalls = 1
        /\ getAvailableDatesInMonth(AddMonth(browsingDate, -1), includedDates) = {}
        /\ hook.includedDatesInMonth # {}

\* The automatic onMonthChange was issued, and the user has since gone back
\* to the month without included dates, where the picker now rests.
C20_Witness ==
    /\ log.autoCalls = 1
    /\ log.manual
    /\ log.step = "effects"
    /\ Idle
    /\ ~isPending
    /\ hook.includedDatesInMonth = {}
    /\ hook.includedDatesNextMonth # {}

(***************************************************************************)
(* Days rendered once on drawn props: the selection shapes.                *)
(***************************************************************************)
\* A Dayjs of the given day of m's month at the given hour.
At(m, day, hour) == [year |-> m.year, month |-> m.month, date |-> day, hour |-> hour]

\* Selections: none; one date in or behind the browsing month, at midnight
\* or at nine; arrays of none, one or two dates.
DaysSelections(bd) ==
    LET next == AddMonth(bd, 1)
    IN  {Null, At(bd, 3, 0), At(bd, 4, 9), At(bd, 20, 0), At(next, 3, 9)}
        \cup {[array |-> <<>>], [array |-> <<At(bd, 3, 9)>>],
              [array |-> <<At(bd, 20, 0), At(bd, 4, 9)>>]}

\* The entry of eventSlug: missing, empty, or with one or two dates as keys.
DaysEntries(bd) ==
    {Null, [keys |-> {}], [keys |-> {yyyymmdd(SetDate(bd, 4))}],
     [keys |-> {yyyymmdd(SetDate(bd, 1)), yyyymmdd(SetDate(AddMonth(bd, 1), 3))}]}

DaysInit ==
    /\ browsingDate \in {FirstBrowsingDate, AddMonth(FirstBrowsingDate, 1)}
    /\ weekStart = 0
    /\ includedDates \in PickerIncluded
    /\ excludedDates \in {{}, {yyyymmdd(SetDate(browsingDate, 3))}}
    /\ showOneMonth = FALSE
    /\ selected \in DaysSelections(browsingDate)
    /\ layout \in {"mobile", "month_view"}
    /\ isPending = FALSE
    /\ selectedDatesAndTimes \in DaysEntries(browsingDate)
    /\ autoNavigating = TRUE
    /\ pc = "props"
    /\ hook = NoResult
    /\ log = NoLog
    /\ ZoomAtRest

\* Days renders: every day button gets its active flag, and the effect of
\* the initial date selection runs.
RenderDays ==
    /\ pc = "props"
    /\ hook' = useCalendarDays(browsingDate, weekStart, includedDates, excludedDates, showOneMonth)
    /\ LET cells == Flatten(hook'.weeks)
       IN  log' = [step |-> "days",
                   cells |-> cells,
                   active |-> [i \in 1..Len(cells) |->
                                 IF cells[i].day = Null THEN FALSE
                                 ELSE isActive(cells[i].day, selected, selectedDatesAndTimes)],
                   selection |-> initialDateSelectionEffect(layout, selected,
                                                            hook'.daysToRenderForTheMonth)]
    /\ pc' = "rendered"
    /\ UNCHANGED <<browsingDate, weekStart, includedDates, excludedDates, showOneMonth,
                   selected, layout, isPending, selectedDatesAndTimes, autoNavigating>>
    /\ UNCHANGED zoomVars

DaysNext == RenderDays

SpecDays == DaysInit /\ [][DaysNext]_vars

\* The Dayjs d falls on the date of the date-string str.
HasDateString(d, str) == yyyymmdd(d) = str

\* Some element of the selected array, the single selected date, some key of
\* the entry of eventSlug has the date-string of day.
ArrayMatches(day) ==
    \E i \in 1..Len(selected.array) : HasDateString(selected.array[i], yyyymmdd(day))
SingleMatches(day) ==
    selected # Null /\ HasDateString(selected, yyyymmdd(day))
KeyMatches(day) ==
    selectedDatesAndTimes # Null /\ \E k \in selectedDatesAndTimes.keys : HasDateString(day, k)

\* The indices of the day buttons rendered.
DayButtons == { i \in 1..Len(log.cells) : log.cells[i].day # Null }

(***************************************************************************)
(* C15: isActive decides by equality of date-strings for each of the three *)
(* selection shapes: under a single selected date a day is active iff the  *)
(* date-strings are equal; under an array iff some element has the day's   *)
(* date-string; under a per-event map iff some key of the entry of         *)
(* eventSlug has it.  Stated for the props that supply an includedDates   *)
(* restriction.                                                            *)
(***************************************************************************)
C15_ActiveIffItsShapeMatches ==
    (Rendered /\ includedDates # {}) => \A i \in DayButtons :
        LET day == log.cells[i].day
        IN  /\ IsArray(selected) => (log.active[i] <=> ArrayMatches(day))
            /\ (~IsArray(selected) /\ selected # Null) => (log.active[i] <=> SingleMatches(day))
            /\ selectedDatesAndTimes # Null => (log.active[i] <=> KeyMatches(day))

(***************************************************************************)
(* C15, as the code has it: isActive decides by equality of date-strings,  *)
(* never by the identity of the objects.  Under an array a day is active   *)
(* iff some element has its date-string, and the per-event map is not      *)
(* consulted.  Otherwise a day is active iff the single selected date has  *)
(* its date-string or some key of the entry of eventSlug has it.  A        *)
(* selection that matches no rendered day leaves every day inactive.       *)
(***************************************************************************)
C15_ActiveByDateString ==
    Rendered => \A i \in DayButtons :
        LET day == log.cells[i].day
        IN  IF IsArray(selected)
            THEN log.active[i] <=> ArrayMatches(day)
            ELSE log.active[i] <=> (SingleMatches(day) \/ KeyMatches(day))

\* A day is active through a key of the map while the single selected date,
\* an object at nine o'clock, is on another rendered day, active as well.
C15_Witness ==
    /\ Rendered
    /\ ~IsArray(selected) /\ selected # Null /\ selected.hour = 9
    /\ \E i, j \in DayButtons :
        /\ log.active[i] /\ ~SingleMatches(log.cells[i].day)
        /\ log.active[j] /\ SingleMatches(log.cells[j].day)

\* The date-strings of the enabled days of the browsing month, as rendered.
EnabledDates ==
    LET cells == hook.daysToRenderForTheMonth
    IN  { yyyymmdd(cells[i].day) : i \in { j \in 1..Len(cells) : ~cells[j].disabled } }

\* The selected prop is one date, and it is an enabled day of the month.
SelectedIsEnabledDay ==
    /\ ~IsArray(selected)
    /\ selected # Null
    /\ yyyymmdd(selected) \in EnabledDates

(***************************************************************************)
(* C18: initial date selection.  Off mobile and with selected not an       *)
(* array, if the selected date is not an enabled day of the browsing month *)
(* and the month has an enabled day, onChange is called with the first     *)
(* enabled day of the month.  On mobile, or with an array, or when the     *)
(* selected date is an enabled day of the month, or when the month has no  *)
(* enabled day, the effect does not call onChange.                         *)
(***************************************************************************)
C18_InitialDateSelection ==
    Rendered =>
        IF /\ layout # "mobile"
           /\ ~IsArray(selected)
           /\ ~SelectedIsEnabledDay
           /\ EnabledDates # {}
        THEN /\ log.selection.called
             /\ yyyymmdd(log.selection.date) = Lowest(EnabledDates)
             /\ InMonth(log.selection.date, browsingDate)
        ELSE ~log.selection.called

\* onChange was called although a date was selected: one that is disabled
\* in the browsing month, or lies in the next month.
C18_Witness ==
    /\ Rendered
    /\ log.step = "days"
    /\ log.selection.called
    /\ selected # Null
    /\ yyyymmdd(log.selection.date) # yyyymmdd(SetDate(browsingDate, 1))

\* The header label of the render pass, and its month names and years.
Label == monthText(browsingDate, hook.shouldRenderNextMonth)
MonthsOf(label) == SelectSeq(label, LAMBDA t : "month" \in DOMAIN t)
YearsOf(label) == SelectSeq(label, LAMBDA t : "year" \in DOMAIN t)

AtYearBoundary == browsingDate.year # NextMonthDate.year

(***************************************************************************)
(* C17: the month label names both the current and the next month exactly  *)
(* when continuation (shouldRenderNextMonth) is active, and a year is      *)
(* shown in the label only at a year boundary, when the current and the    *)
(* next month fall in different years.  Stated for the props that supply   *)
(* an includedDates restriction.                                           *)
(***************************************************************************)
C17_YearOnlyAtYearBoundary ==
    (Rendered /\ includedDates # {}) =>
        /\ MonthsOf(Label) = (IF hook.shouldRenderNextMonth
                              THEN <<MonthName(browsingDate), MonthName(NextMonthDate)>>
                              ELSE <<MonthName(browsingDate)>>)
        /\ YearsOf(Label) # <<>> => AtYearBoundary

(***************************************************************************)
(* C17, as the code has it: the label names both months exactly when       *)
(* continuation is active and the current month alone otherwise.  The year *)
(* of the browsing month is always shown; the year of the next month is    *)
(* shown as well exactly when continuation is active and the two months    *)
(* fall in different years.                                                *)
(***************************************************************************)
C17_LabelMonthsAndYears ==
    Rendered =>
        /\ MonthsOf(Label) = (IF hook.shouldRenderNextMonth
                              THEN <<MonthName(browsingDate), MonthName(NextMonthDate)>>
                              ELSE <<MonthName(browsingDate)>>)
        /\ YearsOf(Label) = (IF hook.shouldRenderNextMonth /\ AtYearBoundary
                             THEN <<Year(browsingDate), Year(NextMonthDate)>>
                             ELSE <<Year(browsingDate)>>)

\* December continues into January and the label shows both years.
C17_Witness ==
    /\ Rendered
    /\ includedDates # {}
    /\ hook.shouldRenderNextMonth
    /\ AtYearBoundary
    /\ Len(YearsOf(Label)) = 2

(***************************************************************************)
(* useCalendarDays across renders: the useMemo cells.                      *)
(*                                                                         *)
(* A cell keeps the dependency list it was computed under, its value, and  *)
(* the number of the call that computed it.  React recomputes a cell when  *)
(* a dependency is not the same (Object.is) as at the previous call.  An   *)
(* array built inside the call is a new object at every call, so it stands *)
(* in a dependency list as the number of the call; a memoized array as the *)
(* number of the call that computed it; an array that comes from outside   *)
(* (the props, getAvailableDatesInMonth) as its contents, the case in      *)
(* which the most cells are kept; booleans and numbers as themselves.      *)
(***************************************************************************)
\* Most calls of the hook in a run.
MaxCalls == 3

EmptyCell == [stamp |-> 0, deps |-> <<>>, value |-> <<>>]

NoMemo ==
    [daysToRenderForTheMonth |-> EmptyCell, daysToRenderForNextMonth |-> EmptyCell,
     shouldRenderNextMonth |-> EmptyCell, allDays |-> EmptyCell, weeks |-> EmptyCell]

\* useMemo(() => value, deps) at call n, given the cell of the previous call.
useMemo(cell, deps, value, n) ==
    IF cell.stamp # 0 /\ cell.deps = deps
    THEN cell
    ELSE [stamp |-> n, deps |-> deps, value |-> value]

\* Mutant: an array built inside the call is the same object at every call.
BuiltInCall_SameObject(n) == 0

\* The identity of an array built inside call n (days, nextMonthDays,
\* availableDaysForTheMonth).
BuiltInCall(n) == n

\* The cells after call n of the hook on the given props.
memoized(memo, n, bd, ws, inc, exc, som) ==
    LET inMonth == getAvailableDatesInMonth(bd, inc)
        inNextMonth == getAvailableDatesInMonth(AddMonth(bd, 1), inc)
        monthDays == useMemo(memo.daysToRenderForTheMonth,
                             <<BuiltInCall(n), inMonth, exc>>,
                             daysToRenderForTheMonth(days(bd, ws), inMonth, exc), n)
        nextDays == useMemo(memo.daysToRenderForNextMonth,
                            <<BuiltInCall(n), inc>>,
                            daysToRenderForNextMonth(nextMonthDays(bd, ws), inc), n)
        render == useMemo(memo.shouldRenderNextMonth,
                          <<inMonth, BuiltInCall(n), inNextMonth, som>>,
                          shouldRenderNextMonth(som, inMonth,
                                                availableDaysForTheMonth(monthDays.value),
                                                inNextMonth), n)
        all == useMemo(memo.allDays,
                       <<render.value, monthDays.stamp, nextDays.stamp>>,
                       allDays(render.value, monthDays.value, nextDays.value), n)
        grouped == useMemo(memo.weeks,
                           <<all.stamp, Cardinality(inMonth), render.value>>,
                           weeks(all.value, inMonth, render.value), n)
    IN  [daysToRenderForTheMonth |-> monthDays, daysToRenderForNextMonth |-> nextDays,
         shouldRenderNextMonth |-> render, allDays |-> all, weeks |-> grouped]

\* What call n of the hook returns, with its cells and the call's number.
useCalendarDaysAgain(memo, n, bd, ws, inc, exc, som) ==
    LET cells == memoized(memo, n, bd, ws, inc, exc, som)
    IN  [daysToRenderForTheMonth |-> cells.daysToRenderForTheMonth.value,
         daysToRenderForNextMonth |-> cells.daysToRenderForNextMonth.value,
         shouldRenderNextMonth |-> cells.shouldRenderNextMonth.value,
         includedDatesInMonth |-> getAvailableDatesInMonth(bd, inc),
         includedDatesNextMonth |-> getAvailableDatesInMonth(AddMonth(bd, 1), inc),
         allDays |-> cells.allDays.value,
         weeks |-> cells.weeks.value,
         memo |-> cells,
         calls |-> n]

\* The props of the calls: two browsing months; no restriction, the 3rd
\* and 4th of either or both months, or the first 8 days of the third.
MemoDates == {FirstBrowsingDate, AddMonth(FirstBrowsingDate, 1)}
MemoIncluded ==
    {{}, Run(FirstBrowsingDate, 3, 2), Run(AddMonth(FirstBrowsingDate, 1), 3, 2),
     Run(FirstBrowsingDate, 3, 2) \cup Run(AddMonth(FirstBrowsingDate, 1), 3, 2),
     Run(AddMonth(FirstBrowsingDate, 2), 1, 8)}
MemoExcluded == {{}, {yyyymmdd(SetDate(FirstBrowsingDate, 3))}}

Props == [browsingDate |-> browsingDate, weekStart |-> weekStart,
          includedDates |-> includedDates, excludedDates |-> excludedDates,
          showOneMonth |-> showOneMonth]

\* The first call of a mounted component: no cell is kept yet.
MemoInit ==
    /\ browsingDate \in MemoDates
    /\ weekStart \in {0, 1}
    /\ includedDates \in MemoIncluded
    /\ excludedDates \in MemoExcluded
    /\ showOneMonth \in BOOLEAN
    /\ PickerAtRest
    /\ ZoomAtRest
    /\ pc = "rendered"
    /\ hook = useCalendarDaysAgain(NoMemo, 1, browsingDate, weekStart, includedDates,
                                   excludedDates, showOneMonth)

\* The component renders again, on the props p.
CallAgain(p) ==
    /\ hook.calls < MaxCalls
    /\ browsingDate' = p.browsingDate
    /\ weekStart' = p.weekStart
    /\ includedDates' = p.includedDates
    /\ excludedDates' = p.excludedDates
    /\ showOneMonth' = p.showOneMonth
    /\ hook' = useCalendarDaysAgain(hook.memo, hook.calls + 1, p.browsingDate, p.weekStart,
                                    p.includedDates, p.excludedDates, p.showOneMonth)
    /\ log' = [step |-> "call", previous |-> Props]
    /\ UNCHANGED <<pc, selected, layout, isPending, selectedDatesAndTimes, autoNavigating>>
    /\ UNCHANGED zoomVars

RenderSameProps == CallAgain(Props)
RenderOtherMonth == \E bd \in MemoDates \ {browsingDate} : CallAgain([Props EXCEPT !.browsingDate = bd])
RenderOtherWeekStart == CallAgain([Props EXCEPT !.weekStart = 1 - weekStart])
RenderOtherIncluded ==
    \E inc \in MemoIncluded \ {includedDates} : CallAgain([Props EXCEPT !.includedDates = inc])
RenderOtherExcluded ==
    \E exc \in MemoExcluded \ {excludedDates} : CallAgain([Props EXCEPT !.excludedDates = exc])
RenderOtherShowOneMonth == CallAgain([Props EXCEPT !.showOneMonth = ~showOneMonth])

MemoNext ==
    \/ RenderSameProps
    \/ RenderOtherMonth
    \/ RenderOtherWeekStart
    \/ RenderOtherIncluded
    \/ RenderOtherExcluded
    \/ RenderOtherShowOneMonth

SpecMemo == MemoInit /\ [][MemoNext]_vars

\* What the hook returned, without the bookkeeping of the cells.
Returned ==
    [daysToRenderForTheMonth |-> hook.daysToRenderForTheMonth,
     daysToRenderForNextMonth |-> hook.daysToRenderForNextMonth,
     shouldRenderNextMonth |-> hook.shouldRenderNextMonth,
     includedDatesInMonth |-> hook.includedDatesInMonth,
     includedDatesNextMonth |-> hook.includedDatesNextMonth,
     allDays |-> hook.allDays,
     weeks |-> hook.weeks]

C19_AutoSelectionStabilises ==
    layout # "mobile" =>
        /\ log.selectionCalls <= 1
        /\ log.selectionCalls = 1 => SelectedIsEnabledDay
        /\ (Idle /\ EnabledDates # {}) => SelectedIsEnabledDay
        /\ (Idle /\ log.clicked # Null /\ yyyymmdd(selected) = yyyymmdd(log.clicked))
              => (EnabledDates = {} \/ InMonth(log.clicked, browsingDate))

\* A day of the next month was clicked, handleInitialDateSelection has
\* called onChange once, and the picker is at rest on the browsing month.
C19_Witness ==
    /\ layout # "mobile"
    /\ Idle
    /\ log.clicked # Null
    /\ ~InMonth(log.clicked, browsingDate)
    /\ showOneMonth
    /\ log.selectionCalls = 1
    /\ yyyymmdd(selected) # yyyymmdd(log.clicked)

\* The enabled cells of a cell sequence that lie in the month of m.
EnabledIn(cells, m) == SelectSeq(cells, LAMBDA c : ~c.disabled /\ InMonth(c.day, m))

Trimming == Rendered /\ hook.shouldRenderNextMonth /\ hook.includedDatesInMonth # {}

\* boundedWeeks and availableDaysCount as the render pass had them at the
\* test of the five-week window.
AtWindowTest == boundedWeeks(groupedWeeks(hook.allDays))

(***************************************************************************)
(* C22: at the test boundedWeeks.length < 5 && availableDaysCount < 14 the *)
(* accumulated availableDaysCount is at most 13, so the 14-day condition   *)
(* never decides: the weeks returned are groupedWeeks.slice(first,         *)
(* first + 5) exactly when fewer than 5 bounded weeks were retained, and   *)
(* boundedWeeks otherwise.                                                 *)
(***************************************************************************)
C22_FourteenDaysNeverDecides ==
    Trimming =>
        LET gw == groupedWeeks(hook.allDays)
            first == firstAvailableIndex(gw)
        IN  /\ AtWindowTest.availableDaysCount <= 13
            /\ first # -1
            /\ hook.weeks = IF Len(AtWindowTest.boundedWeeks) < 5
                            THEN Slice(gw, first, first + 5)
                            ELSE AtWindowTest.boundedWeeks

\* boundedWeeks holds more than 5 weeks and is returned as it is; fewer
\* than 7 available days were counted.
C22_Witness ==
    /\ Trimming
    /\ includedDates # {}
    /\ Len(AtWindowTest.boundedWeeks) > 5
    /\ hook.weeks = AtWindowTest.boundedWeeks
    /\ AtWindowTest.availableDaysCount < 7

(***************************************************************************)
(* The Zoom video adapter: zoomAuth keeps an OAuth token fresh, and the    *)
(* adapter creates and updates meetings with it.                           *)
(*                                                                         *)
(* A JSON object is a record; a field that is absent is absent from the    *)
(* record's domain.  The undefined of an object is Null, the undefined of  *)
(* a string is Undefined, which no token and no error message equals.      *)
(* Times are Date.now() milliseconds; expires_in is in seconds, as the     *)
(* token endpoint sends it.                                                *)
(* A promise is Null while it is pending, then [resolved |-> v] or         *)
(* [rejected |-> message].  A function that may throw gives                *)
(* [value |-> v] or [throws |-> error].                                    *)
(***************************************************************************)
Has(object, field) == field \in DOMAIN object

Undefined == "undefined"

\* object?.field, for a field that holds a string
Get(object, field) == IF object # Null /\ Has(object, field) THEN object[field] ELSE Undefined

\* { ...a, ...b }
Spread(a, b) == [f \in DOMAIN a \cup DOMAIN b |-> IF f \in DOMAIN b THEN b[f] ELSE a[f]]

\* What an if or an && makes of a string.
Truthy(string) == string # Undefined /\ string # ""

\* object.field || 0, for a field that holds a number
NumberOrZero(object, field) == IF Has(object, field) THEN object[field] ELSE 0

Resolved(v) == [resolved |-> v]
Rejected(message) == [rejected |-> message]
Returns(v) == [value |-> v]
Throws(error) == [throws |-> error]

\* The scopes that the expression /meeting:write/ matches.
MeetingWrite == {"meeting:write"}

zoomTokenSchema(token) ==
    /\ Has(token, "scope") /\ token.scope \in MeetingWrite
    /\ Has(token, "expiry_date")
    /\ Has(token, "token_type") /\ token.token_type = "bearer"
    /\ Has(token, "access_token")
    /\ Has(token, "refresh_token")

zoomRefreshedTokenSchema(body) ==
    /\ body # Null
    /\ Has(body, "access_token")
    /\ Has(body, "token_type") /\ body.token_type = "bearer"
    /\ Has(body, "refresh_token")
    /\ Has(body, "expires_in")
    /\ Has(body, "scope")

isTokenValid(token, dateNow) ==
    /\ zoomTokenSchema(token)
    /\ (IF NumberOrZero(token, "expires_in") # 0 THEN token.expires_in
        ELSE NumberOrZero(token, "expiry_date")) > dateNow

\* response.ok
Ok(response) == response.status \in 200..299

\* A Response is [status, statusText, gzip, body]: gzip tells whether its
\* content-encoding header is gzip, body is the JSON it carries, Null if none.
\* Under gzip _response becomes the parsed object, which has no json().
handleZoomResponse(response) ==
    IF response.gzip /\ response.body = Null THEN Throws("SyntaxError")
    ELSE IF ~Ok(response) \/ (response.status < 200 /\ response.status >= 300)
    THEN IF response.gzip THEN Throws("TypeError")
         ELSE IF response.body = Null THEN Throws("SyntaxError")
         ELSE Returns(IF Get(response.body, "error") # "invalid_grant"
                      THEN Spread(response.body, [error |-> response.statusText])
                      ELSE response.body)
    ELSE IF response.status = 204 THEN Returns(Null)
    ELSE IF response.body = Null THEN Throws("SyntaxError")
    ELSE Returns(response.body)

MAX_RETRIES == 2

InvalidGrant == "Invalid grant for Cal.com zoom app"

\* The message of line 137, up to the error it quotes.
GaveUp ==
    "Unable to retrieve access token using refresh token after "
        \o ToString(MAX_RETRIES + 1) \o " attempts"

InvalidTokens == "Invalid refreshed tokens were returned"

\* The fields that zoomRefreshedTokenSchema keeps.
RefreshedFields == {"access_token", "token_type", "refresh_token", "expires_in", "scope"}

\* parseRefreshTokenResponse is imported from _utils/oauth: a body that
\* fits the schema gives the schema's fields of it, any other body throws.
parseRefreshTokenResponse(responseBody) ==
    IF zoomRefreshedTokenSchema(responseBody)
    THEN Returns([f \in RefreshedFields |-> responseBody[f]])
    ELSE Throws(InvalidTokens)

\* refreshAccessToken from the body that handleZoomResponse returned (line
\* 127) to its next await or its return: whether a retry is begun (line
\* 133, whose promise is dropped), and then "invalidate" (line 129),
\* "settle" with a promise, or "store" (line 160) with the key as written
\* in memory, the data for the database and the token to return.
refreshAccessTokenOn(responseBody, noOfRetries, key, dateNow) ==
    LET error == Get(responseBody, "error")
        retry == Truthy(error) /\ error # "invalid_grant" /\ noOfRetries <= MAX_RETRIES
        parsed == parseRefreshTokenResponse(responseBody)
    IN  IF Truthy(error) /\ error = "invalid_grant"
        THEN [step |-> "invalidate", retry |-> FALSE]
        ELSE IF Truthy(error) /\ ~retry
        THEN [step |-> "settle", retry |-> FALSE, promise |-> Rejected(GaveUp)]
        ELSE IF Has(parsed, "throws")
        THEN [step |-> "settle", retry |-> retry, promise |-> Rejected(parsed.throws)]
        ELSE LET newTokens == parsed.value
                 newKey == [key EXCEPT
                              !.access_token = IF Has(newTokens, "access_token")
                                               THEN newTokens.access_token ELSE @,
                              !.refresh_token = IF Has(newTokens, "refresh_token")
                                                THEN newTokens.refresh_token ELSE @,
                              !.expiry_date = IF Has(newTokens, "expires_in")
                                              THEN dateNow + newTokens.expires_in * 1000
                                              ELSE @]
             IN  [step |-> "store", retry |-> retry, key |-> newKey,
                  data |-> Spread(newKey, newTokens),
                  token |-> Get(newTokens, "access_token")]

(***************************************************************************)
(* The adapter at work.  Each invocation of refreshAccessToken is a record *)
(* of calls: the operation that began its chain (root), its noOfRetries,   *)
(* whether its promise was returned to getToken's caller (awaited; the     *)
(* promise of a retry is dropped at line 133), where it stands (pc), the   *)
(* response it got, what it holds for the database, and its promise.       *)
(***************************************************************************)
\* Calls of getToken on one credential.
MaxOps == 2
\* Seconds that pass while the adapter is watched.
MaxTicks == 2

\* Date.now() when the adapter is built, and the length of a tick.
StartOfClock == 100000
TickMs == 1000

\* The lifetime in seconds that the token endpoint grants.
GrantedSeconds == 2

NewCall(root, refreshToken, noOfRetries, awaited) ==
    [root |-> root, refreshToken |-> refreshToken, noOfRetries |-> noOfRetries,
     awaited |-> awaited, pc |-> "fetch", response |-> Null, data |-> Null,
     token |-> Undefined, promise |-> Null]

\* What the token endpoint may answer to the n-th request it gets: new
\* tokens, invalid_grant, or another error, with or without a reason phrase;
\* each of them gzip-encoded or not.
TokenAnswers(n) ==
    UNION {{[status |-> 200, statusText |-> "OK", gzip |-> gzip,
             body |-> [access_token |-> "access" \o ToString(n), token_type |-> "bearer",
                       refresh_token |-> "refresh" \o ToString(n),
                       expires_in |-> GrantedSeconds, scope |-> "meeting:write"]],
            [status |-> 400, statusText |-> "Bad Request", gzip |-> gzip,
             body |-> [reason |-> "Invalid Token!", error |-> "invalid_grant"]],
            [status |-> 400, statusText |-> "Bad Request", gzip |-> gzip,
             body |-> [reason |-> "Invalid request", error |-> "invalid_request"]],
            [status |-> 400, statusText |-> "", gzip |-> gzip,
             body |-> [reason |-> "Invalid request", error |-> "invalid_request"]]} :
           gzip \in BOOLEAN}

\* The keys an installed credential holds: expired, or good for a second.
InitialKeys ==
    {[scope |-> "meeting:write", token_type |-> "bearer", access_token |-> "access0",
      refresh_token |-> "refresh0", expiry_date |-> e] :
        e \in {StartOfClock - TickMs, StartOfClock + TickMs}}

\* !!credentialKey.user_id
isManagedSetup(credentialKey) == Truthy(Get(credentialKey, "user_id"))

\* getToken on the credential, for the operation root: the promise it
\* returns is resolved at once (call 0), or is the promise of the
\* refreshAccessToken it begins.
getToken(cred, cs, dateNow, root) ==
    IF isTokenValid(cred.key, dateNow)
    THEN [calls |-> cs, call |-> 0, immediate |-> Resolved(cred.key.access_token)]
    ELSE [calls |-> Append(cs, NewCall(root, cred.key.refresh_token, 0, TRUE)),
          call |-> Len(cs) + 1, immediate |-> Null]

\* The promise that getToken returned to the operation op.
TokenPromise(op) == IF op.call = 0 THEN op.immediate ELSE calls[op.call].promise

\* The requests that reached the token endpoint.
Requested(cs) == {i \in 1..Len(cs) : cs[i].pc # "fetch"}

\* What the meetings API may answer to a POST or a PATCH.
ApiAnswers ==
    {[status |-> 201, statusText |-> "Created", gzip |-> FALSE,
      body |-> [id |-> 7, join_url |-> "https://zoom.us/j/7", password |-> "pw"]],
     [status |-> 201, statusText |-> "Created", gzip |-> FALSE,
      body |-> [id |-> 0, join_url |-> ""]],
     [status |-> 204, statusText |-> "No Content", gzip |-> FALSE, body |-> Null],
     [status |-> 400, statusText |-> "Bad Request", gzip |-> FALSE,
      body |-> [code |-> 300, message |-> "Invalid meeting"]],
     [status |-> 404, statusText |-> "Not Found", gzip |-> TRUE,
      body |-> [code |-> 3001, message |-> "Meeting does not exist"]]}

\* The booking references handed to updateMeeting.
BookingRefs ==
    {[uid |-> "55", meetingId |-> "55", meetingPassword |-> "old", meetingUrl |-> "https://zoom.us/j/55"],
     [uid |-> "55"],
     [meetingId |-> "55"]}

zoomEventResultSchema(response) ==
    response # Null /\ Has(response, "id") /\ Has(response, "join_url")

\* fetchZoomApi from the promise of getToken on: what it returns or throws.
fetchZoomApi(tokenPromise, answer) ==
    IF Has(tokenPromise, "rejected") THEN Throws(tokenPromise.rejected)
    ELSE handleZoomResponse(answer)

\* createMeeting on what fetchZoomApi gave: the promise it returns.  The
\* rejection of line 338 is returned, not thrown, so the catch leaves it.
createMeeting(fetched) ==
    IF Has(fetched, "throws") THEN Rejected("Unexpected error")
    ELSE LET response == fetched.value
         IN  IF Truthy(Get(response, "error"))
             THEN Rejected("Error creating meeting: " \o response.error)
             ELSE IF ~zoomEventResultSchema(response) THEN Rejected("Unexpected error")
             ELSE IF response.id # 0 /\ response.join_url # ""
             THEN Resolved([type |-> "zoom_video",
                            id |-> ToString(response.id),
                            password |-> IF Has(response, "password")
                                         THEN response.password ELSE "",
                            url |-> response.join_url])
             ELSE Rejected("Unexpected error")

FailedByCreating == "Failed to update meeting by using creating for nonexisting bookingRef"
FailedToUpdate == "Failed to update meeting"

\* !bookingRef.uid || !bookingRef.meetingId
LacksMeeting(bookingRef) ==
    ~Truthy(Get(bookingRef, "uid")) \/ ~Truthy(Get(bookingRef, "meetingId"))

\* updateMeeting, lines 398-419, on the promise createMeeting returned:
\* the promise it returns and the bookingRef it leaves, or patch when it
\* goes on to line 420.
updateMeetingCreated(bookingRef, created) ==
    IF Has(created, "rejected")
    THEN [promise |-> Rejected(FailedByCreating), bookingRef |-> bookingRef, patch |-> FALSE]
    ELSE LET result == created.resolved
         IN  IF Truthy(result.id) /\ Truthy(result.url)
             THEN [promise |-> Resolved([type |-> "zoom_video", id |-> result.id,
                                         password |-> result.password, url |-> result.url]),
                   bookingRef |-> Spread(bookingRef, [meetingId |-> result.id,
                                                      meetingPassword |-> result.password,
                                                      meetingUrl |-> result.url]),
                   patch |-> FALSE]
             ELSE [promise |-> Null, bookingRef |-> bookingRef, patch |-> TRUE]

\* updateMeeting, lines 420-436, on what the PATCH's fetchZoomApi gave.
updateMeetingPatched(bookingRef, fetched) ==
    IF Has(fetched, "throws") THEN Rejected(FailedToUpdate)
    ELSE Resolved([type |-> "zoom_video",
                   id |-> Get(bookingRef, "meetingId"),
                   password |-> Get(bookingRef, "meetingPassword"),
                   url |-> Get(bookingRef, "meetingUrl")])

\* invalidateCredential on the row of the credential.
invalidateCredential(row) == IF row.exists THEN [row EXCEPT !.invalid = TRUE] ELSE row

RecordNotFound == "Record to update not found"

\* The variables of the date picker, which the Zoom adapter never touches.
uiVars == <<browsingDate, weekStart, includedDates, excludedDates, showOneMonth, pc, hook,
            selected, layout, isPending, selectedDatesAndTimes, autoNavigating, log>>

\* The adapter is built on an OAuth credential (no user_id) read from its
\* row; the row may have been deleted since.
ZoomInit ==
    /\ browsingDate = FirstBrowsingDate
    /\ weekStart = 0
    /\ includedDates = {}
    /\ excludedDates = {}
    /\ showOneMonth = FALSE
    /\ pc = "zoom"
    /\ hook = NoResult
    /\ PickerAtRest
    /\ \E key \in InitialKeys, exists \in BOOLEAN :
        /\ credential = [id |-> 1, key |-> key]
        /\ stored = [exists |-> exists, invalid |-> FALSE, key |-> key]
    /\ calls = <<>>
    /\ ops = <<>>
    /\ now = StartOfClock

\* An operation: the bookingRef as it was handed over (given) and as it is
\* now, the request updateMeeting is about to send (mode), the promise of
\* getToken it awaits (call, immediate), the requests it has sent, the last
\* answer it got, the promise of its createMeeting and its own promise.
NewOp(kind, bookingRef, mode, token) ==
    [kind |-> kind, given |-> bookingRef, bookingRef |-> bookingRef, mode |-> mode,
     call |-> token.call, immediate |-> token.immediate, posts |-> 0, patches |-> 0,
     answer |-> Null, created |-> Null, promise |-> Null]

\* The promise of the operation op.
PromiseOf(op) == IF op.kind = "getToken" THEN TokenPromise(op) ELSE op.promise

\* The caller awaits each operation before it starts the next.
Awaited == \A o \in 1..Len(ops) : PromiseOf(ops[o]) # Null

\* No call and no operation is in flight.
Quiet == Awaited /\ \A i \in 1..Len(calls) : calls[i].pc = "settled"

\* zoomAuth(credential).getToken() is called.
GetToken ==
    /\ Len(ops) < MaxOps
    /\ Awaited
    /\ ~isManagedSetup(credential.key)
    /\ LET token == getToken(credential, calls, now, Len(ops) + 1)
       IN  /\ calls' = token.calls
           /\ ops' = Append(ops, NewOp("getToken", Null, "token", token))
    /\ UNCHANGED <<credential, stored, now>>
    /\ UNCHANGED uiVars

\* updateMeeting(bookingRef, event) is called: it runs to the await of
\* getToken in the fetchZoomApi of createMeeting, or of the PATCH.
UpdateMeeting ==
    /\ ops = <<>>
    /\ ~isManagedSetup(credential.key)
    /\ \E bookingRef \in BookingRefs :
        LET token == getToken(credential, calls, now, Len(ops) + 1)
            mode == IF LacksMeeting(bookingRef) THEN "create" ELSE "patch"
        IN  /\ calls' = token.calls
            /\ ops' = Append(ops, NewOp("updateMeeting", bookingRef, mode, token))
    /\ UNCHANGED <<credential, stored, now>>
    /\ UNCHANGED uiVars

\* The promise of getToken has settled under updateMeeting o: fetchZoomApi
\* sends its request if it got a token, and updateMeeting runs on to its
\* return, or to the await of getToken in the fetchZoomApi of the PATCH.
ApiRespond(o) ==
    /\ ops[o].kind = "updateMeeting"
    /\ ops[o].promise = Null
    /\ TokenPromise(ops[o]) # Null
    /\ \E answer \in ApiAnswers :
        LET op == ops[o]
            sent == IF Has(TokenPromise(op), "resolved") THEN 1 ELSE 0
            got == IF sent = 1 THEN answer ELSE op.answer
            fetched == fetchZoomApi(TokenPromise(op), answer)
            created == createMeeting(fetched)
            after == updateMeetingCreated(op.bookingRef, created)
            token == getToken(credential, calls, now, o)
        IN  IF op.mode = "create"
            THEN IF after.patch
                 THEN /\ calls' = token.calls
                      /\ ops' = [ops EXCEPT ![o].mode = "patch", ![o].posts = @ + sent,
                                            ![o].answer = got, ![o].created = created,
                                            ![o].call = token.call,
                                            ![o].immediate = token.immediate]
                 ELSE /\ calls' = calls
                      /\ ops' = [ops EXCEPT ![o].posts = @ + sent,
                                            ![o].answer = got, ![o].created = created,
                                            ![o].bookingRef = after.bookingRef,
                                            ![o].promise = after.promise]
            ELSE /\ calls' = calls
                 /\ ops' = [ops EXCEPT ![o].patches = @ + sent, ![o].answer = got,
                                       ![o].promise = updateMeetingPatched(op.bookingRef, fetched)]
    /\ UNCHANGED <<credential, stored, now>>
    /\ UNCHANGED uiVars

\* The token endpoint answers the request of call i, and refreshAccessToken
\* runs on to its next await or to its return.
RefreshAnswered(i) ==
    /\ calls[i].pc = "fetch"
    /\ \E answer \in TokenAnswers(Cardinality(Requested(calls)) + 1) :
        LET call == calls[i]
            handled == handleZoomResponse(answer)
            r == refreshAccessTokenOn(handled.value, call.noOfRetries, credential.key, now)
            got == [calls EXCEPT ![i].response = answer]
            retried == IF r.retry
                       THEN Append(got, NewCall(call.root, call.refreshToken,
                                                call.noOfRetries + 1, FALSE))
                       ELSE got
        IN  IF Has(handled, "throws")
            THEN /\ calls' = [got EXCEPT ![i].pc = "settled",
                                         ![i].promise = Rejected(handled.throws)]
                 /\ credential' = credential
            ELSE IF r.step = "invalidate"
            THEN /\ calls' = [retried EXCEPT ![i].pc = "invalidate"]
                 /\ credential' = credential
            ELSE IF r.step = "settle"
            THEN /\ calls' = [retried EXCEPT ![i].pc = "settled", ![i].promise = r.promise]
                 /\ credential' = credential
            ELSE /\ calls' = [retried EXCEPT ![i].pc = "store", ![i].data = r.data,
                                             ![i].token = r.token]
                 /\ credential' = [credential EXCEPT !.key = r.key]
    /\ UNCHANGED <<stored, ops, now>>
    /\ UNCHANGED uiVars

\* invalidateCredential returns to call i, which rejects (lines 129-130).
RefreshInvalidated(i) ==
    /\ calls[i].pc = "invalidate"
    /\ stored' = invalidateCredential(stored)
    /\ calls' = [calls EXCEPT ![i].pc = "settled", ![i].promise = Rejected(InvalidGrant)]
    /\ UNCHANGED <<credential, ops, now>>
    /\ UNCHANGED uiVars

\* prisma.credential.update of line 160 returns to call i, or throws
\* because the row is gone.
RefreshStored(i) ==
    /\ calls[i].pc = "store"
    /\ IF stored.exists
       THEN /\ stored' = [stored EXCEPT !.key = calls[i].data]
            /\ calls' = [calls EXCEPT ![i].pc = "settled",
                                      ![i].promise = Resolved(calls[i].token)]
       ELSE /\ stored' = stored
            /\ calls' = [calls EXCEPT ![i].pc = "settled",
                                      ![i].promise = Rejected(RecordNotFound)]
    /\ UNCHANGED <<credential, ops, now>>
    /\ UNCHANGED uiVars

\* A second passes between two operations.
Tick ==
    /\ Quiet
    /\ now < StartOfClock + MaxTicks * TickMs
    /\ now' = now + TickMs
    /\ UNCHANGED <<credential, stored, calls, ops>>
    /\ UNCHANGED uiVars

\* The next request builds its adapter on the row as it is stored now.
Reload ==
    /\ Quiet
    /\ stored.exists
    /\ credential.key # stored.key
    /\ credential' = [credential EXCEPT !.key = stored.key]
    /\ UNCHANGED <<stored, calls, ops, now>>
    /\ UNCHANGED uiVars

\* The token of one credential over several calls of getToken.
ZoomNext ==
    \/ GetToken
    \/ \E i \in 1..Len(calls) : RefreshAnswered(i)
    \/ \E i \in 1..Len(calls) : RefreshInvalidated(i)
    \/ \E i \in 1..Len(calls) : RefreshStored(i)
    \/ Tick
    \/ Reload

SpecZoom == ZoomInit /\ [][ZoomNext]_vars

\* One updateMeeting on a newly built adapter.
MeetingNext ==
    \/ UpdateMeeting
    \/ \E o \in 1..Len(ops) : ApiRespond(o)
    \/ \E i \in 1..Len(calls) : RefreshAnswered(i)
    \/ \E i \in 1..Len(calls) : RefreshInvalidated(i)
    \/ \E i \in 1..Len(calls) : RefreshStored(i)

SpecMeeting == ZoomInit /\ [][MeetingNext]_vars

(***************************************************************************)
(* Claims about the Zoom adapter.                                          *)
(***************************************************************************)
\* The requests that the chain begun by the operation root has had answered.
ChainOf(root) == {i \in Requested(calls) : calls[i].root = root}

\* The call gave up (lines 135-141).
GivenUp(i) == calls[i].promise = Rejected(GaveUp)

(***************************************************************************)
(* C23: when the token endpoint keeps answering with an error other than   *)
(* invalid_grant, the refresh gives up with the error of line 137 after    *)
(* exactly MAX_RETRIES + 1 = 3 requests to the token endpoint.             *)
(***************************************************************************)
C23_GivesUpAfterThreeRequests ==
    \A i \in 1..Len(calls) :
        GivenUp(i) => Cardinality(ChainOf(calls[i].root)) = MAX_RETRIES + 1

\* The calls of the chain that the operation root began, answered or not.
CallsOf(root) == {i \in 1..Len(calls) : calls[i].root = root}

\* The last call of a chain: the one with the most retries behind it.
LastOf(root) == CHOOSE i \in CallsOf(root) : \A j \in CallsOf(root) : j <= i

\* A retry was begun in the chain of the operation root.
Retried(root) == \E i \in CallsOf(root) : calls[i].noOfRetries > 0

(***************************************************************************)
(* C24: once an attempt got an error other than invalid_grant and a retry  *)
(* was begun, the promise that getToken returned settles only with the     *)
(* outcome of the retries: when it has settled no call of the chain is     *)
(* still running, it carries the promise of the last call, and no failed   *)
(* attempt went on to parse its error body.                                *)
(***************************************************************************)
C24_CallerGetsTheOutcomeOfTheRetries ==
    \A o \in 1..Len(ops) :
        (ops[o].kind = "getToken" /\ ops[o].call # 0 /\ Retried(o)
            /\ PromiseOf(ops[o]) # Null) =>
            /\ \A i \in CallsOf(o) : calls[i].pc = "settled"
            /\ PromiseOf(ops[o]) = calls[LastOf(o)].promise
            /\ \A i \in CallsOf(o) : i # LastOf(o) => calls[i].promise # Rejected(InvalidTokens)

\* refreshAccessToken succeeded and the row holds the key it wrote.
RefreshStoredKey ==
    /\ stored.exists
    /\ \E i \in 1..Len(calls) :
        /\ calls[i].pc = "settled"
        /\ Has(calls[i].promise, "resolved")
        /\ calls[i].data = stored.key

\* This step is a call of getToken.
GetTokenCalled == Len(ops') = Len(ops) + 1

(***************************************************************************)
(* C25: after refreshAccessToken succeeded and stored the new key, a       *)
(* getToken on the stored key made before the stored expiry_date returns   *)
(* the stored access_token and begins no refresh.                          *)
(***************************************************************************)
C25_StoredTokenIsReused ==
    [][(/\ GetTokenCalled
        /\ RefreshStoredKey
        /\ credential.key = stored.key
        /\ now < stored.key.expiry_date) =>
            /\ ops'[Len(ops')].call = 0
            /\ ops'[Len(ops')].immediate = Resolved(stored.key.access_token)
            /\ calls' = calls]_vars

\* The token endpoint answered call i with invalid_grant.
AnsweredInvalidGrant(i) ==
    /\ calls[i].response # Null
    /\ Get(calls[i].response.body, "error") = "invalid_grant"

\* Call i began a retry.
BeganRetry(i) ==
    \E j \in CallsOf(calls[i].root) : calls[j].noOfRetries = calls[i].noOfRetries + 1

(***************************************************************************)
(* C26: a call that the token endpoint answered with invalid_grant begins  *)
(* no retry and writes no key; once it has settled it is rejected with     *)
(* 'Invalid grant for Cal.com zoom app' and the credential, if its row     *)
(* exists, is marked invalid.                                              *)
(***************************************************************************)
C26_InvalidGrantInvalidatesAndRejects ==
    \A i \in 1..Len(calls) :
        AnsweredInvalidGrant(i) =>
            /\ ~BeganRetry(i)
            /\ calls[i].data = Null
            /\ calls[i].pc \in {"invalidate", "settled"}
            /\ calls[i].pc = "settled" =>
                /\ calls[i].promise = Rejected(InvalidGrant)
                /\ stored.exists => stored.invalid

\* The id, password and url of the meeting that createMeeting resolved with.
CreatedMeeting(op) ==
    [type |-> "zoom_video", id |-> op.created.resolved.id,
     password |-> op.created.resolved.password, url |-> op.created.resolved.url]

\* The bookingRef holds the meeting that createMeeting resolved with.
HoldsCreated(op) ==
    /\ Get(op.bookingRef, "meetingId") = op.created.resolved.id
    /\ Get(op.bookingRef, "meetingPassword") = op.created.resolved.password
    /\ Get(op.bookingRef, "meetingUrl") = op.created.resolved.url

(***************************************************************************)
(* C27: updateMeeting on a bookingRef that lacks uid or meetingId never    *)
(* sends a PATCH, and settles either resolved with the meeting that        *)
(* createMeeting created, which bookingRef then holds, or rejected.        *)
(* createMeeting never resolves with an empty id or url.  On a bookingRef  *)
(* with uid and meetingId no meeting is created, and updateMeeting rejects *)
(* whenever the PATCH was answered with a status outside 2xx.              *)
(***************************************************************************)
C27_UpdateMeetingCreatesOrPatches ==
    \A o \in 1..Len(ops) :
        LET op == ops[o]
        IN  op.kind = "updateMeeting" =>
            /\ (op.created # Null /\ Has(op.created, "resolved")) =>
                   Truthy(op.created.resolved.id) /\ Truthy(op.created.resolved.url)
            /\ LacksMeeting(op.given) =>
                /\ op.patches = 0
                /\ (op.promise # Null /\ Has(op.promise, "resolved")) =>
                    /\ op.created # Null /\ Has(op.created, "resolved")
                    /\ op.promise = Resolved(CreatedMeeting(op))
                    /\ HoldsCreated(op)
            /\ ~LacksMeeting(op.given) =>
                /\ op.posts = 0
                /\ op.created = Null
                /\ (op.patches > 0 /\ ~Ok(op.answer)) => Has(op.promise, "rejected")

=============================================================================
